---- MODULE Spec2Model ----
(***************************************************************************)
(* Model of agent.py: the four LLM tool handlers of AssistantFnc, which    *)
(* send one LiveKit RPC to the first remote participant, and the           *)
(* data_received callback of entrypoint, which schedules a task merging a  *)
(* JSON message into the module-level dict frontendData.                   *)
(*                                                                         *)
(* Python values are pairs <<tag, payload>>:                               *)
(*   <<"int", n>>  <<"str", chars>>  <<"bool", b>>  <<"null", 0>>          *)
(*   <<"list", elements>>  <<"dict", pairs>>                               *)
(* A str is a sequence of one-character strings; a dict value keeps its    *)
(* pairs <<key, value>> in insertion order, keys being char sequences.     *)
(* Bytes on the wire are sequences of one-character strings as well.       *)
(***************************************************************************)
EXTENDS Integers, Sequences, FiniteSets, Bags, TLC

JInt(n) == <<"int", n>>
JStr(s) == <<"str", s>>
JBool(b) == <<"bool", b>>
JNull == <<"null", 0>>
JList(xs) == <<"list", xs>>
JDict(ps) == <<"dict", ps>>

(* dict[k] = v on an insertion-ordered dict: an existing key keeps its place *)
DictSet(ps, k, v) ==
  IF \E i \in 1..Len(ps) : ps[i][1] = k
  THEN [i \in 1..Len(ps) |-> IF ps[i][1] = k THEN <<k, v>> ELSE ps[i]]
  ELSE Append(ps, <<k, v>>)

(* ------------------------------ json.loads ----------------------------- *)

Digits == {"0", "1", "2", "3", "4", "5", "6", "7", "8", "9"}

DigitVal(c) ==
  CASE c = "0" -> 0 [] c = "1" -> 1 [] c = "2" -> 2 [] c = "3" -> 3
    [] c = "4" -> 4 [] c = "5" -> 5 [] c = "6" -> 6 [] c = "7" -> 7
    [] c = "8" -> 8 [] c = "9" -> 9

(* the result of a scanning step: ok, the value read, the next position *)
Scanned(v, p) == [ok |-> TRUE, val |-> v, pos |-> p]
ScanError == [ok |-> FALSE, val |-> JNull, pos |-> 0]

IsAt(b, i, lit) ==
  /\ i + Len(lit) - 1 <= Len(b)
  /\ SubSeq(b, i, i + Len(lit) - 1) = lit

RECURSIVE SkipWs(_, _)
SkipWs(b, i) ==
  IF i <= Len(b) /\ b[i] = " " THEN SkipWs(b, i + 1) ELSE i

(* the body of a string literal, i being the position after the opening quote *)
RECURSIVE ScanString(_, _, _)
ScanString(b, i, acc) ==
  IF i > Len(b) THEN ScanError
  ELSE IF b[i] = "\"" THEN Scanned(JStr(acc), i + 1)
  ELSE IF b[i] = "\\"
    THEN IF i + 1 <= Len(b) /\ b[i + 1] \in {"\"", "\\", "/"}
         THEN ScanString(b, i + 2, Append(acc, b[i + 1]))
         ELSE IF i + 1 <= Len(b) /\ b[i + 1] = "n"
         THEN ScanString(b, i + 2, Append(acc, "\n"))
         ELSE ScanError
  ELSE IF b[i] = "\n" THEN ScanError
  ELSE ScanString(b, i + 1, Append(acc, b[i]))

RECURSIVE ScanDigits(_, _, _)
ScanDigits(b, i, n) ==
  IF i <= Len(b) /\ b[i] \in Digits
  THEN ScanDigits(b, i + 1, 10 * n + DigitVal(b[i]))
  ELSE Scanned(JInt(n), i)

(* an integer literal: an optional minus sign, then 0 or a non-zero digit *)
(* followed by digits                                                    *)
ScanNumber(b, i) ==
  IF b[i] = "-"
  THEN IF i + 1 > Len(b) \/ b[i + 1] \notin Digits THEN ScanError
       ELSE IF b[i + 1] = "0" THEN Scanned(JInt(0), i + 2)
       ELSE LET r == ScanDigits(b, i + 1, 0) IN Scanned(JInt(0 - r.val[2]), r.pos)
  ELSE IF b[i] = "0" THEN Scanned(JInt(0), i + 1)
  ELSE ScanDigits(b, i, 0)

RECURSIVE ScanValue(_, _)
RECURSIVE ScanElements(_, _, _)
RECURSIVE ScanMembers(_, _, _)

(* the elements of an array after "[" or ",": i is at the next value *)
ScanElements(b, i, acc) ==
  LET e == ScanValue(b, i) IN
  IF ~e.ok THEN ScanError
  ELSE LET j == SkipWs(b, e.pos) IN
    IF j > Len(b) THEN ScanError
    ELSE IF b[j] = "]" THEN Scanned(JList(Append(acc, e.val)), j + 1)
    ELSE IF b[j] = "," THEN ScanElements(b, SkipWs(b, j + 1), Append(acc, e.val))
    ELSE ScanError

(* the members of an object after "{" or ",": i is at the next key *)
ScanMembers(b, i, acc) ==
  IF i > Len(b) \/ b[i] # "\"" THEN ScanError
  ELSE LET k == ScanString(b, i + 1, <<>>) IN
    IF ~k.ok THEN ScanError
    ELSE LET c == SkipWs(b, k.pos) IN
      IF c > Len(b) \/ b[c] # ":" THEN ScanError
      ELSE LET v == ScanValue(b, SkipWs(b, c + 1)) IN
        IF ~v.ok THEN ScanError
        ELSE LET j == SkipWs(b, v.pos)
                 more == DictSet(acc, k.val[2], v.val) IN
          IF j > Len(b) THEN ScanError
          ELSE IF b[j] = "}" THEN Scanned(JDict(more), j + 1)
          ELSE IF b[j] = "," THEN ScanMembers(b, SkipWs(b, j + 1), more)
          ELSE ScanError

ScanValue(b, i) ==
  IF i > Len(b) THEN ScanError
  ELSE IF b[i] = "\"" THEN ScanString(b, i + 1, <<>>)
  ELSE IF b[i] = "{"
    THEN LET j == SkipWs(b, i + 1) IN
         IF j <= Len(b) /\ b[j] = "}" THEN Scanned(JDict(<<>>), j + 1)
         ELSE ScanMembers(b, j, <<>>)
  ELSE IF b[i] = "["
    THEN LET j == SkipWs(b, i + 1) IN
         IF j <= Len(b) /\ b[j] = "]" THEN Scanned(JList(<<>>), j + 1)
         ELSE ScanElements(b, j, <<>>)
  ELSE IF b[i] \in Digits \cup {"-"} THEN ScanNumber(b, i)
  ELSE IF IsAt(b, i, <<"t", "r", "u", "e">>) THEN Scanned(JBool(TRUE), i + 4)
  ELSE IF IsAt(b, i, <<"f", "a", "l", "s", "e">>) THEN Scanned(JBool(FALSE), i + 5)
  ELSE IF IsAt(b, i, <<"n", "u", "l", "l">>) THEN Scanned(JNull, i + 4)
  ELSE ScanError

(* json.loads(data.data): one value between optional whitespace, and     *)
(* nothing after it; ok = FALSE stands for the JSONDecodeError raised    *)
JsonLoads(b) ==
  LET r == ScanValue(b, SkipWs(b, 1)) IN
  IF r.ok /\ SkipWs(b, r.pos) = Len(b) + 1
  THEN [ok |-> TRUE, val |-> r.val]
  ELSE [ok |-> FALSE, val |-> JNull]

(* ------------------------------ json.dumps ----------------------------- *)

DigitChar(d) ==
  CASE d = 0 -> "0" [] d = 1 -> "1" [] d = 2 -> "2" [] d = 3 -> "3"
    [] d = 4 -> "4" [] d = 5 -> "5" [] d = 6 -> "6" [] d = 7 -> "7"
    [] d = 8 -> "8" [] d = 9 -> "9"

RECURSIVE IntChars(_)
IntChars(n) ==
  IF n < 0 THEN <<"-">> \o IntChars(0 - n)
  ELSE IF n < 10 THEN <<DigitChar(n)>>
  ELSE Append(IntChars(n \div 10), DigitChar(n % 10))

(* a str as a JSON string literal: quotes, backslashes and newlines are *)
(* escaped                                                              *)
RECURSIVE EscapeChars(_)
EscapeChars(s) ==
  IF s = <<>> THEN <<>>
  ELSE (IF Head(s) \in {"\"", "\\"} THEN <<"\\", Head(s)>>
        ELSE IF Head(s) = "\n" THEN <<"\\", "n">>
        ELSE <<Head(s)>>)
       \o EscapeChars(Tail(s))

(* the text between quotes as it is, with nothing escaped *)
QuotedUnescaped(s) == <<"\"">> \o s \o <<"\"">>

Quoted(s) == <<"\"">> \o EscapeChars(s) \o <<"\"">>

(* True and False as str() writes them *)
BoolCharsPython(b) ==
  IF b THEN <<"T", "r", "u", "e">> ELSE <<"F", "a", "l", "s", "e">>

BoolChars(b) ==
  IF b THEN <<"t", "r", "u", "e">> ELSE <<"f", "a", "l", "s", "e">>

RECURSIVE JsonDumps(_)
RECURSIVE DumpElements(_)
RECURSIVE DumpMembers(_)

(* the elements of a list, joined by ", " *)
DumpElements(xs) ==
  IF xs = <<>> THEN <<>>
  ELSE JsonDumps(Head(xs))
       \o (IF Len(xs) > 1 THEN <<",", " ">> \o DumpElements(Tail(xs)) ELSE <<>>)

(* the members of a dict, "key": value, joined by ", " *)
DumpMembers(ps) ==
  IF ps = <<>> THEN <<>>
  ELSE Quoted(Head(ps)[1]) \o <<":", " ">> \o JsonDumps(Head(ps)[2])
       \o (IF Len(ps) > 1 THEN <<",", " ">> \o DumpMembers(Tail(ps)) ELSE <<>>)

(* json.dumps(obj) with the default separators *)
JsonDumps(v) ==
  CASE v[1] = "str" -> Quoted(v[2])
    [] v[1] = "int" -> IntChars(v[2])
    [] v[1] = "bool" -> BoolChars(v[2])
    [] v[1] = "null" -> <<"n", "u", "l", "l">>
    [] v[1] = "list" -> <<"[">> \o DumpElements(v[2]) \o <<"]">>
    [] v[1] = "dict" -> <<"{">> \o DumpMembers(v[2]) \o <<"}">>

(* ------------------------------ dict.update ---------------------------- *)

(* frontendData is a mapping from Python keys to Python values *)
EmptyDict == [k \in {} |-> JNull]

(* a store that adds a number to the number already under the key *)
SetItemAdding(d, k, v) ==
  [x \in DOMAIN d \cup {k} |->
     IF x # k THEN d[x]
     ELSE IF k \in DOMAIN d /\ d[k][1] = "int" /\ v[1] = "int"
          THEN JInt(d[k][2] + v[2])
          ELSE v]

SetItem(d, k, v) == [x \in DOMAIN d \cup {k} |-> IF x = k THEN v ELSE d[x]]

(* iter(item) as a list, where item can be iterated *)
Iterable(v) == v[1] \in {"list", "str", "dict"}

IterItems(v) ==
  CASE v[1] = "list" -> v[2]
    [] v[1] = "str" -> [i \in 1..Len(v[2]) |-> JStr(<<v[2][i]>>)]
    [] v[1] = "dict" -> [i \in 1..Len(v[2]) |-> JStr(v[2][i][1])]

Hashable(v) == v[1] \in {"str", "int", "bool", "null"}

(* the outcome of an update: the dict as left behind, and whether it raised *)
Updated(d) == [dict |-> d, raised |-> FALSE]
UpdateRaised(d) == [dict |-> d, raised |-> TRUE]

(* an update that stops after the first pair *)
MergeFirstPair(d, ps) ==
  IF ps = <<>> THEN d ELSE SetItem(d, JStr(Head(ps)[1]), Head(ps)[2])

(* an assignment of the new dict in place of an update *)
ReplacePairs(d, ps) ==
  [k \in {JStr(ps[i][1]) : i \in 1..Len(ps)} |->
     LET i == CHOOSE i \in 1..Len(ps) : JStr(ps[i][1]) = k IN ps[i][2]]

(* update from a dict: every pair is stored, in order *)
RECURSIVE MergePairs(_, _)
MergePairs(d, ps) ==
  IF ps = <<>> THEN d
  ELSE MergePairs(SetItem(d, JStr(Head(ps)[1]), Head(ps)[2]), Tail(ps))

(* update from an iterable of key/value pairs: each element is stored as *)
(* soon as it is read, and an element that is not a pair with a hashable *)
(* key raises, leaving the elements before it stored                     *)
RECURSIVE MergeFromSeq2(_, _)
MergeFromSeq2(d, items) ==
  IF items = <<>> THEN Updated(d)
  ELSE LET item == Head(items) IN
    IF ~Iterable(item) THEN UpdateRaised(d)
    ELSE LET kv == IterItems(item) IN
      IF Len(kv) # 2 \/ ~Hashable(kv[1]) THEN UpdateRaised(d)
      ELSE MergeFromSeq2(SetItem(d, kv[1], kv[2]), Tail(items))

(* an update that is lost, as one made to a copy of the dict *)
DictUpdateDropped(d, v) == Updated(d)

(* frontendData.update(parsed_data) *)
DictUpdate(d, v) ==
  IF v[1] = "dict" THEN Updated(MergePairs(d, v[2]))
  ELSE IF Iterable(v) THEN MergeFromSeq2(d, IterItems(v))
  ELSE UpdateRaised(d)

(* ------------------------------- the state ----------------------------- *)

VARIABLES
  session,       \* "idle", "connected" (entrypoint past ctx.connect), "agent"
  peers,         \* ctx.room.remote_participants: identities in insertion order
  frontendData,  \* the module-level dict
  tasks,         \* the handle_data tasks created and not yet run, oldest first
  calls,         \* the bag of handlers suspended in await perform_rpc(...)
  log,           \* the records logged by the latest step that logged
  escaped,       \* an exception left a handler or a handle_data task
  lastDelivered, \* per key, the value of the latest delivered object carrying it
  onlyObjects    \* every message delivered in this session parsed as an object

vars == <<session, peers, frontendData, tasks, calls, log, escaped,
          lastDelivered, onlyObjects>>

MaxTasks == 2
MaxCalls == 2

Identities == {"peer-1", "peer-2"}

(* the tool arguments the LLM passes: str values *)
Blue == JStr(<<"b", "l", "u", "e">>)
TrueText == JStr(<<"t", "r", "u", "e">>)
Quote == JStr(<<"a", "\"">>)
Arguments == {Blue, TrueText, Quote}

(* the bytes of the data packets *)
MsgX1 == <<"{", "\"", "x", "\"", ":", "1", "}">>
MsgX2 == <<"{", "\"", "x", "\"", ":", "2", "}">>
MsgX2Y1 == <<"{", "\"", "x", "\"", ":", " ", "2", ",", " ", "\"", "y", "\"", ":", " ", "1", "}">>
MsgTruncated == <<"{", "\"", "x", "\"", ":", "1">>
MsgNotJson == <<"h", "i">>
MsgScalar == <<"7">>
MsgString == <<"\"", "x", "y", "\"">>
MsgPairs == <<"[", "[", "\"", "y", "\"", ",", "2", "]", "]">>
MsgPairsThenBad == <<"[", "[", "\"", "y", "\"", ",", "2", "]", ",", "5", "]">>
Packets == {MsgX1, MsgX2, MsgX2Y1, MsgTruncated, MsgNotJson, MsgScalar,
            MsgString, MsgPairs, MsgPairsThenBad}

(* payload maps with str, bool and int values, as the pairs of a dict *)
PayQuoted == << <<<<"a">>, JStr(<<"a", "\"", "\\", "\n", "b">>)>> >>
PayTrue == << <<<<"a">>, JBool(TRUE)>> >>
PayTrueText == << <<<<"a">>, JStr(<<"t", "r", "u", "e">>)>> >>
PayFalseNeg == << <<<<"a">>, JBool(FALSE)>>, <<<<"b">>, JInt(0 - 12)>> >>
PaySevens == << <<<<"b">>, JStr(<<"7">>)>>, <<<<"k", "\"">>, JInt(105)>> >>
PayZero == << <<<<"b">>, JInt(0)>> >>
PayEmpty == << >>
PayloadMaps == {PayQuoted, PayTrue, PayTrueText, PayFalseNeg, PaySevens,
                PayZero, PayEmpty}

(* the payload texts json.dumps makes of them *)
EncodedPayloads == {JsonDumps(JDict(ps)) : ps \in PayloadMaps}

Info(m) == [level |-> "info", msg |-> m]
Warning(m) == [level |-> "warning", msg |-> m]
Error(m) == [level |-> "error", msg |-> m]

Init ==
  /\ session = "idle"
  /\ peers = <<>>
  /\ frontendData = EmptyDict
  /\ tasks = <<>>
  /\ calls = EmptyBag
  /\ log = <<>>
  /\ escaped = FALSE
  /\ lastDelivered = EmptyDict
  /\ onlyObjects = TRUE

(* ------------------------------ the handlers --------------------------- *)

Range(s) == {s[i] : i \in 1..Len(s)}

(* the participant that joined last, values()[-1] *)
LastParticipant(ps) == ps[Len(ps)]

(* list(self.ctx.room.remote_participants.values())[0] *)
(* a handler that keeps the participant it saw first *)
CachedParticipant(ps) == "peer-1"

FirstParticipant(ps) == Head(ps)

(* the handler without its emptiness check: with nobody in the room the  *)
(* indexing of the empty list raises outside the try                     *)
SendRpcUnchecked(method, key, value) ==
  /\ session = "agent"
  /\ IF peers = <<>>
     THEN /\ escaped' = TRUE
          /\ UNCHANGED <<calls, log>>
     ELSE /\ BagCardinality(calls) < MaxCalls
          /\ calls' = calls (+) SetToBag(
               {[destination_identity |-> FirstParticipant(peers),
                 method |-> method,
                 payload |-> JsonDumps(JDict(<< <<key, value>> >>))]})
          /\ log' = <<Info("sending rpc")>>
          /\ UNCHANGED escaped
  /\ UNCHANGED <<session, peers, frontendData, tasks, lastDelivered, onlyObjects>>

(* the body shared by the four handlers: the emptiness check, the choice *)
(* of the participant, the payload and the call, up to the await         *)
SendRpc(method, key, value) ==
  /\ session = "agent"
  /\ IF peers = <<>>
     THEN /\ log' = <<Warning("no remote participants")>>
          /\ calls' = calls
     ELSE /\ BagCardinality(calls) < MaxCalls
          /\ LET remote_participant == FirstParticipant(peers)
                 payload == JsonDumps(JDict(<< <<key, value>> >>))
             IN calls' = calls (+) SetToBag(
                  {[destination_identity |-> remote_participant,
                    method |-> method,
                    payload |-> payload]})
          /\ log' = <<Info("sending rpc")>>
  /\ UNCHANGED <<session, peers, frontendData, tasks, escaped,
                 lastDelivered, onlyObjects>>

change_background(color) ==
  SendRpc("change_background", <<"c", "o", "l", "o", "r">>, color)

select_exercise(exercise) ==
  SendRpc("select_exercise", <<"e", "x", "e", "r", "c", "i", "s", "e">>, exercise)

start_game(Yes) ==
  SendRpc("start_game", <<"Y", "e", "s">>, Yes)

(* change_reps with its payload key misspelt *)
change_reps_misspelt(reps) ==
  SendRpc("change_reps", <<"r", "e", "p">>, reps)

change_reps(reps) ==
  SendRpc("change_reps", <<"r", "e", "p", "s">>, reps)

(* a handler that keeps the outcome of its call in frontendData *)
RpcReturnsAndStores(c) ==
  /\ BagIn(c, calls)
  /\ c.destination_identity \in Range(peers)
  /\ calls' = calls (-) SetToBag({c})
  /\ log' = <<Info("sent")>>
  /\ frontendData' = SetItem(frontendData, JStr(<<"s", "e", "n", "t">>), JBool(TRUE))
  /\ UNCHANGED <<session, peers, tasks, escaped, lastDelivered, onlyObjects>>

(* perform_rpc completes: the handler logs and returns *)
RpcReturns(c) ==
  /\ BagIn(c, calls)
  /\ c.destination_identity \in Range(peers)
  /\ calls' = calls (-) SetToBag({c})
  /\ log' = <<Info("sent")>>
  /\ UNCHANGED <<session, peers, frontendData, tasks, escaped,
                 lastDelivered, onlyObjects>>

(* what the except clause of a handler does with the exception *)
HandlerExcept == [log |-> <<Error("failed to send rpc")>>, escaped |-> FALSE]

(* a handler that sends the call again when it fails *)
RpcFailsAndRetries(c) ==
  /\ BagIn(c, calls)
  /\ log' = HandlerExcept.log
  /\ UNCHANGED <<session, peers, frontendData, tasks, calls, escaped,
                 lastDelivered, onlyObjects>>

(* perform_rpc raises (an RpcError, a timeout): except Exception logs it *)
RpcFails(c) ==
  /\ BagIn(c, calls)
  /\ calls' = calls (-) SetToBag({c})
  /\ log' = HandlerExcept.log
  /\ escaped' = (escaped \/ HandlerExcept.escaped)
  /\ UNCHANGED <<session, peers, frontendData, tasks, lastDelivered, onlyObjects>>

(* ------------------------------- ingestion ----------------------------- *)

IsObject(b) == JsonLoads(b).ok /\ JsonLoads(b).val[1] = "dict"

(* the mapping a JSON object stands for: its keys, each with its value *)
ObjectOf(b) ==
  LET ps == JsonLoads(b).val[2] IN
  [k \in {JStr(ps[i][1]) : i \in 1..Len(ps)} |->
     LET i == CHOOSE i \in 1..Len(ps) : JStr(ps[i][1]) = k IN ps[i][2]]

(* a callback that parses and merges before it returns *)
on_data_received_sync(data) ==
  /\ session \in {"connected", "agent"}
  /\ Len(tasks) < MaxTasks
  /\ frontendData' =
       IF JsonLoads(data).ok
       THEN DictUpdate(frontendData, JsonLoads(data).val).dict
       ELSE frontendData
  /\ log' = <<Info("raw data")>>
  /\ UNCHANGED <<session, peers, tasks, calls, escaped, lastDelivered, onlyObjects>>

(* the data_received callback: asyncio.create_task(handle_data()) *)
on_data_received(data) ==
  /\ session \in {"connected", "agent"}
  /\ Len(tasks) < MaxTasks
  /\ tasks' = Append(tasks, data)
  /\ onlyObjects' = (onlyObjects /\ IsObject(data))
  /\ lastDelivered' =
       IF onlyObjects'
       THEN [k \in DOMAIN lastDelivered \cup DOMAIN ObjectOf(data) |->
               IF k \in DOMAIN ObjectOf(data) THEN ObjectOf(data)[k]
               ELSE lastDelivered[k]]
       ELSE EmptyDict
  /\ UNCHANGED <<session, peers, frontendData, calls, log, escaped>>

(* handle_data without its try: a parse error leaves the task *)
HandleDataUncaught(d, data) ==
  IF ~JsonLoads(data).ok
  THEN [dict |-> d, escaped |-> TRUE, log |-> <<Info("raw data")>>]
  ELSE [dict |-> DictUpdate(d, JsonLoads(data).val).dict, escaped |-> FALSE,
        log |-> <<Info("raw data"), Info("parsed"), Info("updated")>>]

(* the body of handle_data on the bytes data.data and the dict d *)
HandleData(d, data) ==
  LET parsed_data == JsonLoads(data) IN
  IF ~parsed_data.ok
  THEN [dict |-> d, escaped |-> FALSE,
        log |-> <<Info("raw data"), Error("failed to handle")>>]
  ELSE LET u == DictUpdate(d, parsed_data.val) IN
    IF u.raised
    THEN [dict |-> u.dict, escaped |-> FALSE,
          log |-> <<Info("raw data"), Info("parsed"), Error("failed to handle")>>]
    ELSE [dict |-> u.dict, escaped |-> FALSE,
          log |-> <<Info("raw data"), Info("parsed"), Info("updated")>>]

(* a loop that runs the task created last *)
NewestTask(q) == Len(q)

(* the task the event loop runs next: tasks run in the order of creation *)
NextTask(q) == 1

(* a loop that runs a task and leaves it in its queue *)
handle_data_again ==
  /\ session # "idle"
  /\ tasks # <<>>
  /\ frontendData' = HandleData(frontendData, tasks[1]).dict
  /\ log' = HandleData(frontendData, tasks[1]).log
  /\ UNCHANGED <<session, peers, tasks, calls, escaped, lastDelivered, onlyObjects>>

(* the event loop runs a handle_data task, which has no await, to its end *)
handle_data ==
  /\ session # "idle"
  /\ tasks # <<>>
  /\ LET i == NextTask(tasks)
         r == HandleData(frontendData, tasks[i])
     IN /\ frontendData' = r.dict
        /\ log' = r.log
        /\ escaped' = (escaped \/ r.escaped)
        /\ tasks' = SubSeq(tasks, 1, i - 1) \o SubSeq(tasks, i + 1, Len(tasks))
  /\ UNCHANGED <<session, peers, calls, lastDelivered, onlyObjects>>

(* ------------------------------ the session ---------------------------- *)

(* what a run of entrypoint finds in frontendData: entrypoint never      *)
(* assigns the module-level dict                                         *)
EntrypointData(d) == d

(* entrypoint up to ctx.connect: the callbacks are registered *)
entrypoint ==
  /\ session = "idle"
  /\ session' = "connected"
  /\ frontendData' = EntrypointData(frontendData)
  /\ UNCHANGED <<peers, tasks, calls, log, escaped, lastDelivered, onlyObjects>>

(* ctx.wait_for_participant() returns and run_multimodal_agent starts *)
run_multimodal_agent ==
  /\ session = "connected"
  /\ peers # <<>>
  /\ session' = "agent"
  /\ UNCHANGED <<peers, frontendData, tasks, calls, log, escaped,
                 lastDelivered, onlyObjects>>

ParticipantConnected(p) ==
  /\ session # "idle"
  /\ p \notin Range(peers)
  /\ peers' = Append(peers, p)
  /\ UNCHANGED <<session, frontendData, tasks, calls, log, escaped,
                 lastDelivered, onlyObjects>>

ParticipantDisconnected(p) ==
  /\ p \in Range(peers)
  /\ peers' = SelectSeq(peers, LAMBDA q : q # p)
  /\ UNCHANGED <<session, frontendData, tasks, calls, log, escaped,
                 lastDelivered, onlyObjects>>

(* the job ends: the room is left, the loop's pending work is cancelled, *)
(* the module and its globals stay loaded                                *)
SessionEnds ==
  /\ session # "idle"
  /\ session' = "idle"
  /\ peers' = <<>>
  /\ tasks' = <<>>
  /\ calls' = EmptyBag
  /\ lastDelivered' = EmptyDict
  /\ onlyObjects' = TRUE
  /\ UNCHANGED <<frontendData, log, escaped>>

Lifecycle == entrypoint \/ run_multimodal_agent \/ SessionEnds

Membership(ids) ==
  \/ \E p \in ids : ParticipantConnected(p)
  \/ \E p \in ids : ParticipantDisconnected(p)

ToolCalls(args) ==
  \/ \E v \in args : change_background(v)
  \/ \E v \in args : select_exercise(v)
  \/ \E v \in args : start_game(v)
  \/ \E v \in args : change_reps(v)

RpcCompletes ==
  \/ \E c \in BagToSet(calls) : RpcReturns(c)
  \/ \E c \in BagToSet(calls) : RpcFails(c)

Ingestion(packets) ==
  \/ \E data \in packets : on_data_received(data)
  \/ handle_data

(* the whole program, with one participant and few inputs *)
Next ==
  \/ Lifecycle
  \/ Membership({"peer-1"})
  \/ ToolCalls({Blue})
  \/ RpcCompletes
  \/ Ingestion({MsgX1, MsgX2Y1, MsgTruncated, MsgPairsThenBad})

Spec == Init /\ [][Next]_vars

(* the tool handlers alone, with participants coming and going *)
NextTools ==
  \/ Lifecycle
  \/ Membership(Identities)
  \/ ToolCalls(Arguments)
  \/ RpcCompletes

SpecTools == Init /\ [][NextTools]_vars

(* the ingestion of data packets alone, over sessions *)
NextIngest ==
  \/ entrypoint
  \/ SessionEnds
  \/ Ingestion(Packets)

SpecIngest == Init /\ [][NextIngest]_vars

(* ingestion of encoded payload maps *)
NextRoundTrip ==
  \/ entrypoint
  \/ SessionEnds
  \/ Ingestion(EncodedPayloads)

SpecRoundTrip == Init /\ [][NextRoundTrip]_vars

(* ingestion on an event loop that runs every task it was given *)
(* the event loop takes the oldest task off its queue: among the steps of  *)
(* NextIngest these are the handle_data steps                              *)
TaskRuns ==
  /\ session # "idle"
  /\ tasks # <<>>
  /\ session' = session
  /\ tasks' = Tail(tasks)

SpecLive == Init /\ [][NextIngest]_vars /\ WF_tasks(TaskRuns)

(* ------------------------------- the claims ---------------------------- *)

ColorKey == <<"c", "o", "l", "o", "r">>
ExerciseKey == <<"e", "x", "e", "r", "c", "i", "s", "e">>
YesKey == <<"Y", "e", "s">>
RepsKey == <<"r", "e", "p", "s">>

(* a step of any of the four handlers with the argument v *)
ToolStep(v) == ToolCalls({v})

(* the calls a step puts on the wire *)
Issued == calls' (-) calls

(* C1: a tool handler invoked while there is no remote participant, for    *)
(* every handler and every argument, issues no perform_rpc call, logs the  *)
(* no-participant warning once and returns without raising.                *)
C1_NoEndpointSafety ==
  [][\A v \in Arguments :
       (ToolStep(v) /\ peers = <<>>) =>
         /\ calls' = calls
         /\ log' = <<Warning("no remote participants")>>
         /\ ~escaped'
         /\ session' = session]_vars

C1_Witness ==
  /\ session = "agent"
  /\ peers = <<>>
  /\ log = <<Warning("no remote participants")>>
  /\ calls = EmptyBag
  /\ ~escaped

(* the one call (method, {key: v}, p) and no other is put on the wire *)
IssuesExactly(method, key, v, p) ==
  /\ BagCardinality(Issued) = 1
  /\ calls' = calls (+) Issued
  /\ \A c \in BagToSet(Issued) :
       /\ c.method = method
       /\ c.destination_identity = p
       /\ JsonLoads(c.payload) = [ok |-> TRUE, val |-> JDict(<< <<key, v>> >>)]

(* C2: with exactly one participant p connected, an invocation of a tool   *)
(* handler with the argument v puts exactly one call on the wire: its      *)
(* method is the tool's name, its payload is the text of the one-key       *)
(* object {key: v} of that tool, its destination is p's identity.          *)
C2_OneEndpointOneCall ==
  [][\A v \in Arguments :
       Len(peers) = 1 =>
         /\ change_background(v) =>
              IssuesExactly("change_background", ColorKey, v, peers[1])
         /\ select_exercise(v) =>
              IssuesExactly("select_exercise", ExerciseKey, v, peers[1])
         /\ start_game(v) => IssuesExactly("start_game", YesKey, v, peers[1])
         /\ change_reps(v) => IssuesExactly("change_reps", RepsKey, v, peers[1])]_vars

(* scenario A: change_background("blue") with peer-1 alone in the room *)
C2_Witness ==
  /\ peers = <<"peer-1">>
  /\ log = <<Info("sending rpc")>>
  /\ calls = SetToBag({[destination_identity |-> "peer-1",
                        method |-> "change_background",
                        payload |-> <<"{", "\"", "c", "o", "l", "o", "r", "\"", ":", " ",
                                      "\"", "b", "l", "u", "e", "\"", "}">>]})

(* C3: a perform_rpc that fails or times out is contained and not         *)
(* retried: the handler logs the error and returns without raising, the    *)
(* failed call is off the wire and no other call replaces it, and the      *)
(* session goes on: the pending tasks are kept, and after a failure the    *)
(* tool handlers and the data_received callback are still enabled (the     *)
(* callback is tried on an empty packet: it is enabled whatever the bytes, *)
(* while the task queue of the model has room).                            *)
C3_TransportFailureContained ==
  /\ [][\A c \in BagToSet(calls) :
          RpcFails(c) =>
            /\ log' = <<Error("failed to send rpc")>>
            /\ ~escaped'
            /\ calls' = calls (-) SetToBag({c})
            /\ BagCardinality(calls') = BagCardinality(calls) - 1
            /\ session' = session
            /\ tasks' = tasks
            /\ frontendData' = frontendData]_vars
  /\ []((log = <<Error("failed to send rpc")>> /\ session = "agent") =>
          /\ ~escaped
          /\ ENABLED ToolStep(Blue)
          /\ Len(tasks) < MaxTasks => ENABLED on_data_received(<<>>))

C3_Witness ==
  /\ session = "agent"
  /\ log = <<Error("failed to send rpc")>>
  /\ calls # EmptyBag
  /\ tasks # <<>>
  /\ ~escaped

(* C4: whatever the number of participants, one or several, an invocation  *)
(* addresses exactly one of them, the first in the insertion order of      *)
(* remote_participants as it is at the invocation, and no other.           *)
C4_FirstParticipantOnly ==
  [][\A v \in Arguments :
       (ToolStep(v) /\ peers # <<>>) =>
         /\ BagCardinality(Issued) = 1
         /\ calls' = calls (+) Issued
         /\ \A c \in BagToSet(Issued) : c.destination_identity = peers[1]
         /\ peers' = peers]_vars

(* both participants connected, calls in flight to each of them: peer-1    *)
(* was first, left and came back behind peer-2                             *)
C4_Witness ==
  /\ peers = <<"peer-2", "peer-1">>
  /\ log = <<Info("sending rpc")>>
  /\ {c.destination_identity : c \in BagToSet(calls)} = {"peer-1", "peer-2"}

(* d with every key of the mapping m set to m's value *)
Merged(d, m) ==
  [k \in DOMAIN d \cup DOMAIN m |-> IF k \in DOMAIN m THEN m[k] ELSE d[k]]

HandleFailed == <<Info("raw data"), Error("failed to handle")>>

(* C5: bytes that are not JSON, or JSON cut short, leave frontendData as   *)
(* it was; nothing leaves the task but a logged error; the tasks of the    *)
(* later messages stay scheduled and the callback stays enabled.           *)
C5_MalformedInputDiscarded ==
  /\ [][(handle_data /\ ~JsonLoads(tasks[1]).ok) =>
          /\ frontendData' = frontendData
          /\ ~escaped'
          /\ log' = HandleFailed
          /\ tasks' = Tail(tasks)
          /\ session' = session]_vars
  /\ []((log = HandleFailed /\ session # "idle" /\ Len(tasks) < MaxTasks) =>
          ENABLED on_data_received(<<>>))

C5_Witness ==
  /\ log = HandleFailed
  /\ frontendData = ObjectOf(MsgX2Y1)
  /\ tasks = <<MsgX1>>
  /\ ~escaped

(* C6: a message that is valid JSON but not an object (a scalar, a string, *)
(* an array) is handled as a failure: it is logged as an error and         *)
(* frontendData is left exactly as it was.                                 *)
C6_OnlyObjectsMerged ==
  [][(handle_data /\ JsonLoads(tasks[1]).ok /\ ~IsObject(tasks[1])) =>
       /\ frontendData' = frontendData
       /\ log'[Len(log')].level = "error"]_vars

(* C7: the merges are applied in the order of delivery: once every task    *)
(* of a session whose messages were all objects has run, each key          *)
(* delivered holds the value of the last delivered message carrying it.    *)
C7_ArrivalOrderLastWriteWins ==
  (tasks = <<>> /\ onlyObjects) =>
    \A k \in DOMAIN lastDelivered :
      k \in DOMAIN frontendData /\ frontendData[k] = lastDelivered[k]

(* {x: 2, y: 1} then {x: 1} were delivered: x is 1 *)
C7_Witness ==
  /\ session # "idle"
  /\ tasks = <<>>
  /\ onlyObjects
  /\ lastDelivered = Merged(ObjectOf(MsgX2Y1), ObjectOf(MsgX1))
  /\ frontendData = lastDelivered
  /\ frontendData[JStr(<<"x">>)] = JInt(1)

(* C8: whatever the handlers in flight, frontendData changes only in the   *)
(* one step of a handle_data task, and the step of a task carrying an      *)
(* object applies all of its keys: no state between the dict before the    *)
(* merge and the dict after it can be read.                                *)
C8_MergeAtomicity ==
  [][\/ frontendData' = frontendData
     \/ /\ handle_data
        /\ IsObject(tasks[1]) =>
             frontendData' = Merged(frontendData, ObjectOf(tasks[1]))]_vars

(* a two-key object merged over {x: 1} while a handler awaits its call *)
C8_Witness ==
  /\ calls # EmptyBag
  /\ log = <<Info("raw data"), Info("parsed"), Info("updated")>>
  /\ frontendData = ObjectOf(MsgX2Y1)
  /\ tasks # <<>>

(* C9 as stated: right after the arrival of an object m at the callback,   *)
(* frontendData being empty, frontendData equals m.                        *)
C9_SnapshotAtArrival ==
  [][\A data \in Packets :
       (on_data_received(data) /\ IsObject(data) /\ DOMAIN frontendData = {}) =>
         frontendData' = ObjectOf(data)]_vars

(* C9 amended: once the task scheduled for an object m has run on an empty *)
(* frontendData, frontendData equals m, whether or not a handler is        *)
(* suspended in perform_rpc, and the calls in flight are untouched.        *)
C9_SnapshotAfterTask ==
  [][(handle_data /\ IsObject(tasks[1]) /\ DOMAIN frontendData = {}) =>
       /\ frontendData' = ObjectOf(tasks[1])
       /\ DOMAIN frontendData' # {}
       /\ calls' = calls]_vars

C9_Witness ==
  /\ calls # EmptyBag
  /\ tasks = <<>>
  /\ log = <<Info("raw data"), Info("parsed"), Info("updated")>>
  /\ frontendData = ObjectOf(MsgX2Y1)

(* C10: frontendData is empty at the start of every run of entrypoint.     *)
C10_SessionStartsEmpty ==
  [][entrypoint => DOMAIN frontendData' = {}]_vars

(* the catalog of the outbound RPC interface: the methods and their keys *)
Catalog ==
  {"display_weather", "change_background", "start_game", "select_exercise",
   "change_reps"}

CatalogKeys(method) ==
  CASE method = "display_weather" ->
         {<<"l", "o", "c", "a", "t", "i", "o", "n">>, <<"w", "e", "a", "t", "h", "e", "r">>}
    [] method = "change_background" -> {ColorKey}
    [] method = "start_game" -> {YesKey}
    [] method = "select_exercise" -> {ExerciseKey}
    [] method = "change_reps" -> {RepsKey}

(* C11: every call on the wire carries a method of the catalog and, as     *)
(* payload, the text of an object whose keys are exactly those listed for  *)
(* the method, every value being a string.                                 *)
C11_CatalogConformance ==
  \A c \in BagToSet(calls) :
    /\ c.method \in Catalog
    /\ LET r == JsonLoads(c.payload) IN
       /\ r.ok
       /\ r.val[1] = "dict"
       /\ {r.val[2][i][1] : i \in 1..Len(r.val[2])} = CatalogKeys(c.method)
       /\ Len(r.val[2]) = Cardinality(CatalogKeys(c.method))
       /\ \A i \in 1..Len(r.val[2]) : r.val[2][i][2][1] = "str"

(* start_game("true") and change_reps("a\"") in flight together *)
C11_Witness ==
  /\ [destination_identity |-> "peer-1", method |-> "start_game",
      payload |-> <<"{", "\"", "Y", "e", "s", "\"", ":", " ",
                    "\"", "t", "r", "u", "e", "\"", "}">>] \in BagToSet(calls)
  /\ \E c \in BagToSet(calls) :
       c.method = "change_reps" /\ JsonLoads(c.payload).val[2][1][2] = Quote

(* every key of the mapping m is in d with m's value *)
Contains(d, m) == \A k \in DOMAIN m : k \in DOMAIN d /\ d[k] = m[k]

LogUpdated == <<Info("raw data"), Info("parsed"), Info("updated")>>

(* C12: ingesting an object message a second time changes nothing: the     *)
(* dict a handle_data task leaves is a fixed point of handle_data on the   *)
(* same bytes, and a task whose object is already in frontendData, as it   *)
(* is after a first ingestion, leaves frontendData as it is.               *)
C12_IdempotentMerge ==
  [][(handle_data /\ IsObject(tasks[1])) =>
       /\ HandleData(frontendData', tasks[1]).dict = frontendData'
       /\ Contains(frontendData, ObjectOf(tasks[1])) =>
            frontendData' = frontendData]_vars

(* {x: 2, y: 1} was ingested over {x: 1} and is queued once more *)
C12_Witness ==
  /\ log = LogUpdated
  /\ frontendData = ObjectOf(MsgX2Y1)
  /\ tasks = <<MsgX2Y1>>
  /\ lastDelivered = ObjectOf(MsgX2Y1)
  /\ onlyObjects

(* the mapping the pairs ps of a payload map stand for *)
MappingOf(ps) ==
  [k \in {JStr(ps[i][1]) : i \in 1..Len(ps)} |->
     LET i == CHOOSE i \in 1..Len(ps) : JStr(ps[i][1]) = k IN ps[i][2]]

(* C13: for every payload map with str, bool and int values, json.loads of *)
(* the text json.dumps made of it gives the same map, the same keys with   *)
(* the same values of the same types, and the task that decodes the text   *)
(* merges exactly that map.                                                *)
C13_PayloadRoundTrip ==
  [][\A ps \in PayloadMaps :
       (handle_data /\ tasks[1] = JsonDumps(JDict(ps))) =>
         /\ JsonLoads(tasks[1]) = [ok |-> TRUE, val |-> JDict(ps)]
         /\ frontendData' = Merged(frontendData, MappingOf(ps))
         /\ log' = LogUpdated]_vars

(* {a: false, b: -12} was decoded over {a: "true"} and the text of the map *)
(* with the quote, the backslash and the newline is queued                 *)
C13_Witness ==
  /\ log = LogUpdated
  /\ frontendData = MappingOf(PayFalseNeg)
  /\ lastDelivered = Merged(Merged(MappingOf(PayTrueText), MappingOf(PayFalseNeg)),
                            MappingOf(PayQuoted))
  /\ tasks = <<JsonDumps(JDict(PayQuoted))>>

(* C14: the data_received callback neither parses nor merges: it only     *)
(* schedules a handle_data task for the packet and returns, with           *)
(* frontendData and the log as they were, and while earlier tasks are      *)
(* still waiting the callback can be called again.                         *)
C14_NonBlockingIngestion ==
  [][/\ \A data \in Packets :
          on_data_received(data) =>
            /\ frontendData' = frontendData
            /\ log' = log
            /\ tasks' = Append(tasks, data)
     /\ (session # "idle" /\ tasks # <<>> /\ Len(tasks) < MaxTasks) =>
          ENABLED on_data_received(<<>>)]_vars

(* two object packets were delivered and neither has been merged *)
C14_Witness ==
  /\ tasks = <<MsgX1, MsgX2Y1>>
  /\ frontendData = EmptyDict
  /\ log = <<>>

FalseText == JStr(<<"f", "a", "l", "s", "e">>)

(* a str that is the decimal text of an integer *)
IsIntegerText(v) ==
  /\ v[1] = "str"
  /\ v[2] # <<>>
  /\ \A i \in 1..Len(v[2]) : v[2][i] \in Digits

(* C15: start_game called with a text other than "true" or "false", and    *)
(* change_reps called with a text that is not an integer, issue no         *)
(* outbound call, so the raw text never reaches the wire.                  *)
C15_TypedParse ==
  [][\A v \in Arguments :
       ((start_game(v) /\ v \notin {TrueText, FalseText})
          \/ (change_reps(v) /\ ~IsIntegerText(v)))
         => calls' = calls]_vars

(* a step of a tool handler: its start, up to the await, or its end, *)
(* after perform_rpc returned or raised                             *)
HandlerStep ==
  \/ ToolStep(Blue)
  \/ \E c \in BagToSet(calls) : RpcReturns(c) \/ RpcFails(c)

(* C16: no step of a tool handler, whether it finds no participant, sends  *)
(* its call or sees the call fail, changes frontendData; frontendData      *)
(* changes only in a step of a handle_data task, and a handle_data task    *)
(* issues and completes no outbound call.                                  *)
C16_SingleWriter ==
  [][/\ HandlerStep => frontendData' = frontendData
     /\ frontendData' # frontendData => handle_data
     /\ handle_data => calls' = calls]_vars

(* a call returned and another failed while frontendData held {x: 2, y: 1} *)
C16_Witness ==
  /\ frontendData = ObjectOf(MsgX2Y1)
  /\ log = HandlerExcept.log
  /\ calls = EmptyBag
  /\ peers = <<>>
  /\ session = "agent"

(* C17: in every step the keys of frontendData stay: a merge adds keys or  *)
(* overwrites values, and nothing, the end of a session included, removes  *)
(* a key.                                                                  *)
C17_MonotonicKeySet ==
  [][/\ DOMAIN frontendData \subseteq DOMAIN frontendData'
     /\ (handle_data /\ IsObject(tasks[1])) =>
          \A k \in DOMAIN frontendData' :
            \/ k \in DOMAIN ObjectOf(tasks[1]) /\ frontendData'[k] = ObjectOf(tasks[1])[k]
            \/ k \in DOMAIN frontendData /\ frontendData'[k] = frontendData[k]]_vars

(* frontendData holds x from an object and y from a list of pairs *)
C17_Witness ==
  /\ frontendData = Merged(ObjectOf(MsgX2), JStr(<<"y">>) :> JInt(2))
  /\ ~onlyObjects
  /\ log = LogUpdated
  /\ tasks = <<>>

ObjectPackets == {MsgX1, MsgX2, MsgX2Y1}

(* C18: every object message delivered to the callback is merged exactly   *)
(* once: a delivery creates one task, a task is run once, merging its      *)
(* object and leaving the queue, nothing else merges, and on an event loop *)
(* that runs its tasks a waiting message whose object is not yet in        *)
(* frontendData is merged eventually unless the session ends first.        *)
C18_ExactlyOnce ==
  /\ [][/\ \A data \in Packets :
             on_data_received(data) => tasks' = Append(tasks, data)
        /\ handle_data =>
             /\ tasks' = Tail(tasks)
             /\ IsObject(tasks[1]) =>
                  frontendData' = Merged(frontendData, ObjectOf(tasks[1]))
        /\ frontendData' # frontendData => handle_data]_vars
  /\ \A m \in ObjectPackets :
       (session # "idle" /\ m \in Range(tasks) /\ ~Contains(frontendData, ObjectOf(m)))
         ~> (session = "idle" \/ Contains(frontendData, ObjectOf(m)))

(* {x: 2} was delivered alone, merged, and its task is gone *)
C18_Witness ==
  /\ session # "idle"
  /\ tasks = <<>>
  /\ onlyObjects
  /\ lastDelivered = ObjectOf(MsgX2)
  /\ frontendData = ObjectOf(MsgX2)
  /\ log = LogUpdated

(* C19: with participants joining and leaving between the steps, every    *)
(* call is issued to a participant that is connected in the step that      *)
(* issues it: the check, the choice of the first participant and the call  *)
(* of perform_rpc are one step, and the participants change only in other  *)
(* steps, while handlers are suspended in their await.                     *)
C19_NoStaleEndpoint ==
  [][/\ \A c \in BagToSet(Issued) :
          /\ c.destination_identity \in Range(peers)
          /\ c.destination_identity \in Range(peers')
     /\ peers' # peers => Issued = EmptyBag]_vars

(* peer-1 left while a call to it was awaited, and the next call went to *)
(* peer-2                                                                *)
C19_Witness ==
  /\ session = "agent"
  /\ peers = <<"peer-2">>
  /\ log = <<Info("sending rpc")>>
  /\ {c.destination_identity : c \in BagToSet(calls)} = {"peer-1", "peer-2"}

====
